---- MODULE Spec2Model ----
(***************************************************************************)
(* State-machine model of scripts/process_player_data.py: the five-stage   *)
(* batch pipeline (sort -> extract top players -> filter transfers ->      *)
(* add countries -> merge prestigious players) over four CSV inputs.       *)
(*                                                                         *)
(* Text is modelled as a sequence of one-character strings so that strip,  *)
(* lower, endswith and substring tests are computed, not assumed.  A       *)
(* non-ASCII character is a named token ("e_acute").  NaN / a missing CSV  *)
(* field is the one-element sequence NA.  A DataFrame / CSV file is a      *)
(* record of its column list and its row sequence.                         *)
(***************************************************************************)
EXTENDS Integers, Sequences, FiniteSets, TLC

VARIABLES
  fs_market_value,    \* input file player_market_value.csv
  fs_profiles,        \* input file player_profiles.csv
  fs_teams,           \* input file team_details.csv
  fs_transfers,       \* input file transfer_history.csv
  output_dir,         \* TRUE iff the output directory exists
  f_sorted,           \* output_dir/player_market_value_descending.csv
  f_curated,          \* output_dir/player_profiles_top2500.csv
  f_filtered,         \* output_dir/transfer_history_filtered.csv
  market_value_df,    \* main(): value returned by sort_market_values
  top_players,        \* main(): value returned by extract_top_players
  filtered_transfers, \* main(): value returned by filter_transfer_history
  merge_log,          \* locals of the last find_and_merge_prestigious_players run
  pc,                 \* position in main()
  exit_code           \* process exit status once the run has ended, else -1

vars == << fs_market_value, fs_profiles, fs_teams, fs_transfers, output_dir,
           f_sorted, f_curated, f_filtered, market_value_df, top_players,
           filtered_transfers, merge_log, pc, exit_code >>

-----------------------------------------------------------------------------
(* Bounds of the model *)

\* rows of player_market_value.csv
MaxValueRows == 3
\* rows of transfer_history.csv
MaxTransferRows == 2
\* head(30000) of the sorted value table, scaled to the model's table sizes
HeadCap == 2
\* calls of find_and_merge_prestigious_players on one output directory
MaxMergerRuns == 2

(* Program constants *)
HighValue == 20000000
ValueFloor == 19000000
BandLow == 10000000
BandHigh == 19000000

-----------------------------------------------------------------------------
(* Text *)

NA == << "<NA>" >>
isna(x) == x = NA

UpperCase == <<"A", "B", "C", "D", "E", "F", "G", "H", "I", "J", "K", "L", "M", "N", "O", "P", "Q", "R", "S", "T", "U", "V", "W", "X", "Y", "Z">>
LowerCase == <<"a", "b", "c", "d", "e", "f", "g", "h", "i", "j", "k", "l", "m", "n", "o", "p", "q", "r", "s", "t", "u", "v", "w", "x", "y", "z">>

\* str.lower() on one character
LowerChar(c) ==
  IF \E i \in 1..Len(UpperCase) : UpperCase[i] = c
  THEN LowerCase[CHOOSE i \in 1..Len(UpperCase) : UpperCase[i] = c]
  ELSE c

\* str.lower()
Lower(s) == [i \in 1..Len(s) |-> LowerChar(s[i])]

RECURSIVE LStrip(_)
LStrip(s) == IF s # << >> /\ Head(s) = " " THEN LStrip(Tail(s)) ELSE s

RECURSIVE RStrip(_)
RStrip(s) ==
  IF s # << >> /\ s[Len(s)] = " " THEN RStrip(SubSeq(s, 1, Len(s) - 1)) ELSE s

\* str.strip()
Strip(s) == RStrip(LStrip(s))

\* s.endswith(suffix)
EndsWith(s, suffix) ==
  /\ Len(suffix) <= Len(s)
  /\ SubSeq(s, Len(s) - Len(suffix) + 1, Len(s)) = suffix

\* sub in s
Contains(s, sub) ==
  \E i \in 0..(Len(s) - Len(sub)) : SubSeq(s, i + 1, i + Len(sub)) = sub

\* x in list
InList(x, list) == \E i \in 1..Len(list) : list[i] = x

\* unidecode on one character: ASCII passes, others go to their transliteration
UnidecodeChar(c) ==
  CASE c = "e_acute" -> << "e" >>
    [] c = "i_acute" -> << "i" >>
    [] c = "a_tilde" -> << "a" >>
    [] c = "sharp_s" -> << "s", "s" >>
    [] OTHER -> << c >>

RECURSIVE unidecode(_)
unidecode(s) ==
  IF s = << >> THEN << >> ELSE UnidecodeChar(Head(s)) \o unidecode(Tail(s))

normalize_player_name(name) == IF isna(name) THEN name ELSE unidecode(name)

normalize_team_name(team_name) == IF isna(team_name) THEN << >> ELSE Strip(team_name)

european_countries ==
  << <<"a", "l", "b", "a", "n", "i", "a">>,
     <<"a", "n", "d", "o", "r", "r", "a">>,
     <<"a", "r", "m", "e", "n", "i", "a">>,
     <<"a", "u", "s", "t", "r", "i", "a">>,
     <<"a", "z", "e", "r", "b", "a", "i", "j", "a", "n">>,
     <<"b", "e", "l", "a", "r", "u", "s">>,
     <<"b", "e", "l", "g", "i", "u", "m">>,
     <<"b", "o", "s", "n", "i", "a">>,
     <<"b", "u", "l", "g", "a", "r", "i", "a">>,
     <<"c", "r", "o", "a", "t", "i", "a">>,
     <<"c", "y", "p", "r", "u", "s">>,
     <<"c", "z", "e", "c", "h">>,
     <<"d", "e", "n", "m", "a", "r", "k">>,
     <<"e", "s", "t", "o", "n", "i", "a">>,
     <<"f", "i", "n", "l", "a", "n", "d">>,
     <<"f", "r", "a", "n", "c", "e">>,
     <<"g", "e", "o", "r", "g", "i", "a">>,
     <<"g", "e", "r", "m", "a", "n", "y">>,
     <<"g", "r", "e", "e", "c", "e">>,
     <<"h", "u", "n", "g", "a", "r", "y">>,
     <<"i", "c", "e", "l", "a", "n", "d">>,
     <<"i", "r", "e", "l", "a", "n", "d">>,
     <<"i", "t", "a", "l", "y">>,
     <<"k", "a", "z", "a", "k", "h", "s", "t", "a", "n">>,
     <<"k", "o", "s", "o", "v", "o">>,
     <<"l", "a", "t", "v", "i", "a">>,
     <<"l", "i", "e", "c", "h", "t", "e", "n", "s", "t", "e", "i", "n">>,
     <<"l", "i", "t", "h", "u", "a", "n", "i", "a">>,
     <<"l", "u", "x", "e", "m", "b", "o", "u", "r", "g">>,
     <<"m", "a", "l", "t", "a">>,
     <<"m", "o", "l", "d", "o", "v", "a">>,
     <<"m", "o", "n", "a", "c", "o">>,
     <<"m", "o", "n", "t", "e", "n", "e", "g", "r", "o">>,
     <<"n", "e", "t", "h", "e", "r", "l", "a", "n", "d", "s">>,
     <<"n", "o", "r", "w", "a", "y">>,
     <<"p", "o", "l", "a", "n", "d">>,
     <<"p", "o", "r", "t", "u", "g", "a", "l">>,
     <<"r", "o", "m", "a", "n", "i", "a">>,
     <<"r", "u", "s", "s", "i", "a">>,
     <<"s", "a", "n", " ", "m", "a", "r", "i", "n", "o">>,
     <<"s", "e", "r", "b", "i", "a">>,
     <<"s", "l", "o", "v", "a", "k", "i", "a">>,
     <<"s", "l", "o", "v", "e", "n", "i", "a">>,
     <<"s", "p", "a", "i", "n">>,
     <<"s", "w", "e", "d", "e", "n">>,
     <<"s", "w", "i", "t", "z", "e", "r", "l", "a", "n", "d">>,
     <<"t", "u", "r", "k", "e", "y">>,
     <<"u", "k", "r", "a", "i", "n", "e">>,
     <<"u", "n", "i", "t", "e", "d", " ", "k", "i", "n", "g", "d", "o", "m">>,
     <<"e", "n", "g", "l", "a", "n", "d">>,
     <<"s", "c", "o", "t", "l", "a", "n", "d">>,
     <<"w", "a", "l", "e", "s">>,
     <<"n", "o", "r", "t", "h", "e", "r", "n", " ", "i", "r", "e", "l", "a", "n", "d">>,
     <<"v", "a", "t", "i", "c", "a", "n">> >>

is_european_country(place_of_birth) ==
  IF isna(place_of_birth) THEN FALSE
  ELSE LET place_str == Lower(place_of_birth)
       IN  \E i \in 1..Len(european_countries) :
             Contains(place_str, european_countries[i])

youth_suffixes ==
  << <<"Y", "T", "H">>,
     <<"Y", "o", "u", "t", "h">>,
     <<"Y", "o", "u">>,
     <<"U", "1", "9">>,
     <<"U", "1", "7">>,
     <<"Y", "t", "h">>,
     <<"U", "2", "0">>,
     <<"U", "2", "1">>,
     <<"U", "1", "8">>,
     <<"U", "1", "6">>,
     <<"U", "2", "3">>,
     <<"U", "2", "2">>,
     <<"U", "2", "4">>,
     <<"I", "I">>,
     <<"Y", "t", "h", ".">>,
     <<"B">> >>

get_prestigious_teams ==
  << <<"A", "r", "s", "e", "n", "a", "l">>,
     <<"A", "C", " ", "M", "i", "l", "a", "n">>,
     <<"R", "e", "a", "l", " ", "M", "a", "d", "r", "i", "d">>,
     <<"F", "C", " ", "B", "a", "r", "c", "e", "l", "o", "n", "a">>,
     <<"B", "a", "r", "c", "e", "l", "o", "n", "a">>,
     <<"C", "h", "e", "l", "s", "e", "a">>,
     <<"C", "h", "e", "l", "s", "e", "a", " ", "F", "C">> >>

excl_arsenal == << <<"s", "a", "r", "a", "n", "d", "i_acute">>, <<"k", "y", "i", "v">>, <<"u", "1", "8">>, <<"u", "1", "9">>, <<"u", "2", "1">>, <<"y", "o", "u", "t", "h">>, <<"b">> >>
excl_barcelona == << <<" ", "s", "c">>, <<" ", "b">>, <<" ", "c">>, <<"u", "1", "8">>, <<"u", "1", "9">>, <<"y", "o", "u", "t", "h">> >>
excl_ac_milan == << <<"y", "o", "u", "t", "h">>, <<"u", "1", "7">>, <<"u", "1", "9">>, <<"b">> >>
excl_real_madrid == << <<" ", "b">>, <<" ", "c">>, <<"u", "1", "9">>, <<"y", "o", "u", "t", "h">> >>
excl_chelsea == << <<"u", "1", "8">>, <<"u", "1", "9">>, <<"u", "2", "1">>, <<"y", "o", "u", "t", "h">>, <<"b">> >>
key_arsenal == <<"a", "r", "s", "e", "n", "a", "l">>
key_barcelona == <<"b", "a", "r", "c", "e", "l", "o", "n", "a">>
key_ac_milan == <<"a", "c", " ", "m", "i", "l", "a", "n">>
key_real_madrid == <<"r", "e", "a", "l", " ", "m", "a", "d", "r", "i", "d">>
key_chelsea == <<"c", "h", "e", "l", "s", "e", "a">>
key_chelsea_fc == <<"c", "h", "e", "l", "s", "e", "a", " ", "f", "c">>

Txt_Retired == <<"R", "e", "t", "i", "r", "e", "d">>
Txt_ParisFrance == <<"P", "a", "r", "i", "s", ",", " ", "F", "R", "A", "N", "C", "E">>
Txt_TokyoJapan == <<"T", "o", "k", "y", "o", ",", " ", "J", "a", "p", "a", "n">>
Txt_RealMadrid == <<"R", "e", "a", "l", " ", "M", "a", "d", "r", "i", "d">>
Txt_RealMadridB == <<"R", "e", "a", "l", " ", "M", "a", "d", "r", "i", "d", " ", "B", " ">>
Txt_ArsenalPadded == <<" ", "A", "R", "S", "E", "N", "A", "L", " ">>
Txt_BocaJuniors == <<"B", "o", "c", "a", " ", "J", "u", "n", "i", "o", "r", "s">>
Txt_Pele == <<"P", "e", "l", "e_acute">>
Txt_Santos == <<"S", "a", "n", "t", "o", "s", " ", "F", "C">>
Txt_retired_lc == <<"r", "e", "t", "i", "r", "e", "d">>
Txt_Spain == << "S", "p", "a", "i", "n" >>
Txt_England == << "E", "n", "g", "l", "a", "n", "d" >>
Txt_ArsenalPlain == <<"A", "r", "s", "e", "n", "a", "l">>
Txt_ArsenalB == <<"A", "r", "s", "e", "n", "a", "l", " ", "B">>
Txt_ArsenalSarandi == <<"A", "r", "s", "e", "n", "a", "l", " ", "S", "a", "r", "a", "n", "d", "i_acute">>
Txt_FCBarcelona == <<"F", "C", " ", "B", "a", "r", "c", "e", "l", "o", "n", "a">>
Txt_Barcelona == <<"B", "a", "r", "c", "e", "l", "o", "n", "a">>
Txt_BarcelonaB == <<"B", "a", "r", "c", "e", "l", "o", "n", "a", " ", "B">>
Txt_ACMilan == <<"A", "C", " ", "M", "i", "l", "a", "n">>
Txt_Chelsea == <<"C", "h", "e", "l", "s", "e", "a">>
Txt_ChelseaFC == <<"C", "H", "E", "L", "S", "E", "A", " ", "F", "C">>
Txt_ChelseaB == <<"C", "h", "e", "l", "s", "e", "a", " ", "B">>
Txt_Bayern == <<"B", "a", "y", "e", "r", "n", " ", "M", "u", "n", "i", "c", "h">>

-----------------------------------------------------------------------------
(* DataFrames and CSV files *)

Frame(columns, rows) == [columns |-> columns, rows |-> rows]
File(columns, rows) == [exists |-> TRUE, columns |-> columns, rows |-> rows]
NoFile == [exists |-> FALSE, columns |-> << >>, rows |-> << >>]

ValueColumns == << "player_id", "value" >>
ProfileColumns ==
  << "player_id", "player_name", "current_club_name", "place_of_birth" >>
CuratedColumns == ProfileColumns \o << "market_value" >>
TransferColumns ==
  << "player_id", "player_name", "from_team_id", "from_team_name",
     "to_team_id", "to_team_name" >>
EnrichedColumns == TransferColumns \o << "from_team_country", "to_team_country" >>
TeamColumns == << "club_id", "country_name" >>

\* pandas' default na_values that are made of the model's characters
NaTokens ==
  { << >>, << "N", "A" >>, << "N", "a", "N" >>, << "n", "a", "n" >>,
    << "n", "u", "l", "l" >>, << "N", "U", "L", "L" >>, << "N", "o", "n", "e" >>,
    << "N", "/", "A" >>, << "n", "/", "a" >> }

\* read_csv on one text field: an empty field or an NA token is NaN
ReadText(field) == IF field \in NaTokens THEN NA ELSE field
\* to_csv on one text value: NaN is written as the empty field
WriteText(x) == IF isna(x) THEN << >> ELSE x

ReadProfileRow(r) ==
  [player_id |-> r.player_id,
   player_name |-> ReadText(r.player_name),
   current_club_name |-> ReadText(r.current_club_name),
   place_of_birth |-> ReadText(r.place_of_birth)]

ReadCuratedRow(r) ==
  [player_id |-> r.player_id,
   player_name |-> ReadText(r.player_name),
   current_club_name |-> ReadText(r.current_club_name),
   place_of_birth |-> ReadText(r.place_of_birth),
   market_value |-> r.market_value]

WriteCuratedRow(r) ==
  [player_id |-> r.player_id,
   player_name |-> WriteText(r.player_name),
   current_club_name |-> WriteText(r.current_club_name),
   place_of_birth |-> WriteText(r.place_of_birth),
   market_value |-> r.market_value]

ReadTransferRow(r) ==
  [player_id |-> r.player_id,
   player_name |-> ReadText(r.player_name),
   from_team_id |-> r.from_team_id,
   from_team_name |-> ReadText(r.from_team_name),
   to_team_id |-> r.to_team_id,
   to_team_name |-> ReadText(r.to_team_name)]

WriteTransferRow(r) ==
  [player_id |-> r.player_id,
   player_name |-> WriteText(r.player_name),
   from_team_id |-> r.from_team_id,
   from_team_name |-> WriteText(r.from_team_name),
   to_team_id |-> r.to_team_id,
   to_team_name |-> WriteText(r.to_team_name)]

WriteEnrichedRow(r) ==
  [player_id |-> r.player_id,
   player_name |-> WriteText(r.player_name),
   from_team_id |-> r.from_team_id,
   from_team_name |-> WriteText(r.from_team_name),
   to_team_id |-> r.to_team_id,
   to_team_name |-> WriteText(r.to_team_name),
   from_team_country |-> WriteText(r.from_team_country),
   to_team_country |-> WriteText(r.to_team_country)]

ReadTeamRow(r) ==
  [club_id |-> r.club_id, country_name |-> ReadText(r.country_name)]

\* pd.read_csv / DataFrame.to_csv(index=False), per table shape
read_value_csv(f) == Frame(f.columns, f.rows)
read_profiles_csv(f) ==
  Frame(f.columns,
       [i \in 1..Len(f.rows) |-> ReadProfileRow(f.rows[i])])
read_curated_csv(f) ==
  Frame(f.columns,
       [i \in 1..Len(f.rows) |-> ReadCuratedRow(f.rows[i])])
read_transfers_csv(f) ==
  Frame(f.columns,
       [i \in 1..Len(f.rows) |-> ReadTransferRow(f.rows[i])])
read_teams_csv(f) ==
  Frame(f.columns,
       [i \in 1..Len(f.rows) |-> ReadTeamRow(f.rows[i])])
value_to_csv(df) == File(df.columns, df.rows)
curated_to_csv(df) ==
  File(df.columns,
       [i \in 1..Len(df.rows) |-> WriteCuratedRow(df.rows[i])])
transfers_to_csv(df) ==
  File(df.columns,
       [i \in 1..Len(df.rows) |-> WriteTransferRow(df.rows[i])])
enriched_to_csv(df) ==
  File(df.columns,
       [i \in 1..Len(df.rows) |-> WriteEnrichedRow(df.rows[i])])

\* the values of column player_id, as a set
Ids(rows) == { rows[i].player_id : i \in 1..Len(rows) }

\* df.head(n)
Head_n(rows, n) == SubSeq(rows, 1, IF Len(rows) < n THEN Len(rows) ELSE n)

\* all orderings of the rows of a table
Orderings(rows) ==
  LET n == Len(rows)
      perms == { p \in [1..n -> 1..n] : \A i, j \in 1..n : i # j => p[i] # p[j] }
  IN  { [i \in 1..n |-> rows[p[i]]] : p \in perms }

\* df.sort_values(column, ascending=False): the default sort is not stable, so
\* every ordering with the key non-increasing is a possible result
sort_values_descending(rows, column) ==
  { s \in Orderings(rows) :
      \A i \in 1..(Len(s) - 1) : s[i][column] >= s[i + 1][column] }

MaxOf(S) == CHOOSE m \in S : \A x \in S : x <= m

\* df.groupby('player_id')['value'].max(): player_id -> maximum value
groupby_max(rows) ==
  [p \in Ids(rows) |->
     MaxOf({ rows[i].value : i \in { j \in 1..Len(rows) : rows[j].player_id = p } })]

-----------------------------------------------------------------------------
(* Inputs *)

PlayerIds == {1, 2}
Values == {5000000, 10000000, 19000000, 22000000}

SeqsUpTo(S, n) == UNION { [1..k -> S] : k \in 0..n }

\* player 1 takes every value, player 2 the two values at the ends of the
\* merger's band
ValueRecords ==
  { r \in [player_id : PlayerIds, value : Values] :
      r.player_id = 2 => r.value \in { BandLow, BandHigh } }
ValueTables == SeqsUpTo(ValueRecords, MaxValueRows)

\* player 1 has a name with a diacritic, player 2 has no name
PlayerName(p) == IF p = 1 THEN Txt_Pele ELSE << >>

ProfileOptions(p) ==
  { [player_id |-> p, player_name |-> PlayerName(p),
     current_club_name |-> Txt_Retired, place_of_birth |-> Txt_TokyoJapan],
    [player_id |-> p, player_name |-> PlayerName(p),
     current_club_name |-> Txt_Santos, place_of_birth |-> Txt_ParisFrance],
    [player_id |-> p, player_name |-> PlayerName(p),
     current_club_name |-> Txt_retired_lc, place_of_birth |-> << >>] }

\* at most one profile per player (player_id is the unique key); player 1 has
\* every kind of profile or none, player 2 a European one
ProfileTables ==
  { a \o << b >> :
      a \in { << >> } \cup { << r >> : r \in ProfileOptions(1) },
      b \in { o \in ProfileOptions(2) : o.place_of_birth = Txt_ParisFrance } }

Club(id, name) == [club_id |-> id, name |-> name]
Club_RealMadrid == Club(1, Txt_RealMadrid)
Club_RealMadridB == Club(2, Txt_RealMadridB)
Club_Arsenal == Club(3, Txt_ArsenalPadded)
Club_Boca == Club(4, Txt_BocaJuniors)
Club_Unnamed == Club(5, << >>)
Club_ArsenalPlain == Club(6, Txt_ArsenalPlain)
Club_ArsenalB == Club(7, Txt_ArsenalB)
Club_ArsenalSarandi == Club(8, Txt_ArsenalSarandi)
Club_FCBarcelona == Club(9, Txt_FCBarcelona)
Club_Barcelona == Club(10, Txt_Barcelona)
Club_BarcelonaB == Club(11, Txt_BarcelonaB)
Club_ACMilan == Club(12, Txt_ACMilan)
Club_Chelsea == Club(13, Txt_Chelsea)
Club_ChelseaFC == Club(14, Txt_ChelseaFC)
Club_ChelseaB == Club(15, Txt_ChelseaB)
Club_Bayern == Club(16, Txt_Bayern)

\* the clubs the merger's matcher is tried on: the seven listed names, names
\* with a suffix, padded and upper-case names, names with a "b", no name
MatcherClubs ==
  { Club_RealMadrid, Club_RealMadridB, Club_Arsenal, Club_Boca, Club_Unnamed,
    Club_ArsenalPlain, Club_ArsenalB, Club_ArsenalSarandi, Club_FCBarcelona,
    Club_Barcelona, Club_BarcelonaB, Club_ACMilan, Club_Chelsea,
    Club_ChelseaFC, Club_ChelseaB, Club_Bayern }

TransferRow(p, from, to) ==
  [player_id |-> p, player_name |-> PlayerName(p),
   from_team_id |-> from.club_id, from_team_name |-> from.name,
   to_team_id |-> to.club_id, to_team_name |-> to.name]

TransferRecords ==
  { TransferRow(p, from, to) :
      p \in PlayerIds,
      from \in { Club_Arsenal, Club_RealMadridB },
      to \in { Club_RealMadrid, Club_RealMadridB, Club_Boca } }
TransferTables == SeqsUpTo(TransferRecords, MaxTransferRows)

TeamRow(id, country) == [club_id |-> id, country_name |-> country]
\* club 1 is listed twice (two seasons), club 4 has no country
TeamTables ==
  { << >>,
    << TeamRow(1, Txt_Spain), TeamRow(1, Txt_England), TeamRow(3, Txt_England),
       TeamRow(4, << >>) >> }

ValueRecord(p, v) == [player_id |-> p, value |-> v]
ValueTablesNarrow ==
  { << ValueRecord(1, 22000000), ValueRecord(2, 10000000) >>,
    << ValueRecord(1, 10000000), ValueRecord(2, 15000000) >>,
    << ValueRecord(2, 19000000), ValueRecord(1, 5000000), ValueRecord(1, 22000000) >> }
ProfileTablesNarrow ==
  { << [player_id |-> 1, player_name |-> PlayerName(1),
        current_club_name |-> Txt_Santos, place_of_birth |-> Txt_ParisFrance],
       [player_id |-> 2, player_name |-> PlayerName(2),
        current_club_name |-> Txt_Retired, place_of_birth |-> Txt_TokyoJapan] >> }
\* the last row has no to_team_name
TransferTablesNarrow ==
  { << TransferRow(1, Club_RealMadridB, Club_RealMadrid),
       TransferRow(2, Club_Arsenal, Club_Boca),
       TransferRow(1, Club_RealMadrid, Club_Unnamed) >> }

\* a curated file left by an earlier run, for a direct call of the merger
PriorCuratedFiles ==
  { File(CuratedColumns,
         << [player_id |-> p, player_name |-> << "P", "e", "l", "e" >>,
             current_club_name |-> Txt_Santos, place_of_birth |-> Txt_ParisFrance,
             market_value |-> 12000000] >>) : p \in PlayerIds }

EmptyLog ==
  [runs |-> 0, existed |-> FALSE, before |-> << >>, loaded |-> << >>,
   max_values |-> << >>,
   qualified |-> {}, prestigious_players |-> << >>, players_to_add |-> << >>]

InitCommon ==
  /\ f_sorted = NoFile
  /\ f_filtered = NoFile
  /\ market_value_df = Frame(<< >>, << >>)
  /\ top_players = Frame(<< >>, << >>)
  /\ filtered_transfers = Frame(<< >>, << >>)
  /\ merge_log = EmptyLog
  /\ exit_code = -1

\* a full run; the value and profile tables range over all tables
InitValues ==
  /\ InitCommon
  /\ pc = "validate"
  /\ output_dir = FALSE
  /\ f_curated = NoFile
  /\ \E t \in ValueTables : fs_market_value = File(ValueColumns, t)
  /\ \E t \in ProfileTables : fs_profiles = File(ProfileColumns, t)
  /\ \E t \in TransferTablesNarrow : fs_transfers = File(TransferColumns, t)
  /\ fs_teams = File(TeamColumns, << >>)

\* a full run; the transfer table ranges over all tables
InitTransfers ==
  /\ InitCommon
  /\ pc = "validate"
  /\ output_dir = FALSE
  /\ f_curated = NoFile
  /\ \E t \in ValueTablesNarrow : fs_market_value = File(ValueColumns, t)
  /\ \E t \in ProfileTablesNarrow : fs_profiles = File(ProfileColumns, t)
  /\ \E t \in TransferTables : fs_transfers = File(TransferColumns, t)
  /\ \E t \in TeamTables : fs_teams = File(TeamColumns, t)

InputFile(present, columns, rows) ==
  IF present THEN File(columns, rows) ELSE NoFile

\* a run in which any of the four inputs may be missing
InitMissing ==
  /\ InitCommon
  /\ pc = "validate"
  /\ output_dir \in BOOLEAN
  /\ f_curated = NoFile
  /\ \E e \in [1..4 -> BOOLEAN] :
       /\ fs_market_value =
            InputFile(e[1], ValueColumns, CHOOSE t \in ValueTablesNarrow : TRUE)
       /\ fs_profiles =
            InputFile(e[2], ProfileColumns, CHOOSE t \in ProfileTablesNarrow : TRUE)
       /\ fs_teams = InputFile(e[3], TeamColumns, << >>)
       /\ fs_transfers =
            InputFile(e[4], TransferColumns, CHOOSE t \in TransferTablesNarrow : TRUE)

\* find_and_merge_prestigious_players called on its own, with or without a
\* curated file already in place
InitMergerOnly ==
  /\ InitCommon
  /\ pc = "merge"
  /\ output_dir = TRUE
  /\ f_curated \in { NoFile } \cup PriorCuratedFiles
  /\ \E t \in ValueTablesNarrow : fs_market_value = File(ValueColumns, t)
  /\ \E t \in ProfileTables : fs_profiles = File(ProfileColumns, t)
  /\ \E t \in { << >> } \cup TransferTablesNarrow :
       fs_transfers = File(TransferColumns, t)
  /\ fs_teams = File(TeamColumns, << >>)

\* find_and_merge_prestigious_players called on its own on one transfer of a
\* player inside the band, between any two of the matcher's clubs
InitMatcher ==
  /\ InitCommon
  /\ pc = "merge"
  /\ output_dir = TRUE
  /\ f_curated = NoFile
  /\ fs_market_value =
       File(ValueColumns, << ValueRecord(1, BandLow), ValueRecord(2, BandHigh) >>)
  /\ \E t \in ProfileTablesNarrow : fs_profiles = File(ProfileColumns, t)
  /\ \E from \in MatcherClubs, to \in { Club_Unnamed, Club_Boca, Club_ChelseaFC } :
       fs_transfers = File(TransferColumns, << TransferRow(1, from, to) >>)
  /\ fs_teams = File(TeamColumns, << >>)

Init == InitValues \/ InitTransfers \/ InitMissing \/ InitMergerOnly \/ InitMatcher

-----------------------------------------------------------------------------
(* main(): validation of the inputs, lines 492-507 *)

InputsExist ==
  /\ fs_market_value.exists
  /\ fs_profiles.exists
  /\ fs_teams.exists
  /\ fs_transfers.exists

\* the output directory is made before the inputs are looked at
ValidateFail_after_mkdir ==
  /\ pc = "validate"
  /\ ~InputsExist
  /\ output_dir' = TRUE
  /\ pc' = "exit"
  /\ exit_code' = 1
  /\ UNCHANGED << fs_market_value, fs_profiles, fs_teams, fs_transfers,
                  f_sorted, f_curated, f_filtered, market_value_df, top_players,
                  filtered_transfers, merge_log >>

\* a missing input: sys.exit(1) before anything else is done
ValidateFail ==
  /\ pc = "validate"
  /\ ~InputsExist
  /\ pc' = "exit"
  /\ exit_code' = 1
  /\ UNCHANGED << fs_market_value, fs_profiles, fs_teams, fs_transfers, output_dir,
                  f_sorted, f_curated, f_filtered, market_value_df, top_players,
                  filtered_transfers, merge_log >>

ValidateOk ==
  /\ pc = "validate"
  /\ InputsExist
  /\ pc' = "ensure_dir"
  /\ UNCHANGED << fs_market_value, fs_profiles, fs_teams, fs_transfers, output_dir,
                  f_sorted, f_curated, f_filtered, market_value_df, top_players,
                  filtered_transfers, merge_log, exit_code >>

\* Path(output_dir).mkdir(parents=True, exist_ok=True)
ensure_output_directory ==
  /\ pc = "ensure_dir"
  /\ output_dir' = TRUE
  /\ pc' = "sort"
  /\ UNCHANGED << fs_market_value, fs_profiles, fs_teams, fs_transfers,
                  f_sorted, f_curated, f_filtered, market_value_df, top_players,
                  filtered_transfers, merge_log, exit_code >>

-----------------------------------------------------------------------------
(* Step 1: sort_market_values *)

\* the rows in ascending order of value
df_sorted_ascending(df) ==
  { Frame(df.columns, s) :
      s \in { t \in Orderings(df.rows) :
                \A i \in 1..(Len(t) - 1) : t[i].value <= t[i + 1].value } }

\* the rows as they were read, not sorted
df_sorted_as_read(df) == { df }

\* the possible values of df_sorted
df_sorted(df) ==
  { Frame(df.columns, s) : s \in sort_values_descending(df.rows, "value") }

sort_market_values ==
  /\ pc = "sort"
  /\ \E sorted \in df_sorted(read_value_csv(fs_market_value)) :
       /\ f_sorted' = value_to_csv(sorted)
       /\ market_value_df' = sorted
  /\ pc' = "extract"
  /\ UNCHANGED << fs_market_value, fs_profiles, fs_teams, fs_transfers, output_dir,
                  f_curated, f_filtered, top_players, filtered_transfers,
                  merge_log, exit_code >>

-----------------------------------------------------------------------------
(* Step 2: extract_top_players *)

\* market_value_df.head(30000).groupby('player_id')['value'].max()
top_max_values(sorted_df) == groupby_max(Head_n(sorted_df.rows, HeadCap))

WithMarketValue(r, value) ==
  [player_id |-> r.player_id,
   player_name |-> normalize_player_name(r.player_name),
   current_club_name |-> r.current_club_name,
   place_of_birth |-> r.place_of_birth,
   market_value |-> value]

\* profiles of the players of max_values, with their market_value and their
\* normalized name
merge_profiles(profile_rows, max_values) ==
  LET kept == SelectSeq(profile_rows, LAMBDA r : r.player_id \in DOMAIN max_values)
  IN  [i \in 1..Len(kept) |-> WithMarketValue(kept[i], max_values[kept[i].player_id])]

\* the filter of lines 184-188
retention_filter(r) ==
  \/ r.market_value > HighValue
  \/ r.current_club_name = Txt_Retired
  \/ is_european_country(r.place_of_birth)

\* a floor that leaves out the boundary value
floor_filter_exclusive(r) == r.market_value > ValueFloor

\* the filter of line 201
floor_filter(r) == r.market_value >= ValueFloor

\* the possible values of top_players
extract_top_players_result(sorted_df, profiles_df) ==
  LET merged == merge_profiles(profiles_df.rows, top_max_values(sorted_df))
  IN  { Frame(profiles_df.columns \o << "market_value" >>,
              SelectSeq(SelectSeq(s, retention_filter), floor_filter)) :
          s \in sort_values_descending(merged, "market_value") }

extract_top_players ==
  /\ pc = "extract"
  /\ \E result \in extract_top_players_result(market_value_df,
                                              read_profiles_csv(fs_profiles)) :
       /\ f_curated' = curated_to_csv(result)
       /\ top_players' = result
  /\ pc' = "remove_temp"
  /\ UNCHANGED << fs_market_value, fs_profiles, fs_teams, fs_transfers, output_dir,
                  f_sorted, f_filtered, market_value_df, filtered_transfers,
                  merge_log, exit_code >>

\* main(), lines 515-519: the sorted value file is removed
remove_temp_file ==
  /\ pc = "remove_temp"
  /\ f_sorted' = NoFile
  /\ pc' = "filter"
  /\ UNCHANGED << fs_market_value, fs_profiles, fs_teams, fs_transfers, output_dir,
                  f_curated, f_filtered, market_value_df, top_players,
                  filtered_transfers, merge_log, exit_code >>

-----------------------------------------------------------------------------
(* Step 3: filter_transfer_history *)

NormalizedTransfer(r) ==
  [player_id |-> r.player_id,
   player_name |-> normalize_player_name(r.player_name),
   from_team_id |-> r.from_team_id,
   from_team_name |-> r.from_team_name,
   to_team_id |-> r.to_team_id,
   to_team_name |-> r.to_team_name]

\* the transfer table passed through without the player filter
filter_transfer_history_unfiltered(transfers_df, top_players_df) ==
  Frame(transfers_df.columns,
        [i \in 1..Len(transfers_df.rows) |->
           NormalizedTransfer(transfers_df.rows[i])])

filter_transfer_history_result(transfers_df, top_players_df) ==
  LET top_player_ids == Ids(top_players_df.rows)
      kept == SelectSeq(transfers_df.rows, LAMBDA r : r.player_id \in top_player_ids)
  IN  Frame(transfers_df.columns,
            [i \in 1..Len(kept) |-> NormalizedTransfer(kept[i])])

filter_transfer_history ==
  /\ pc = "filter"
  /\ LET result == filter_transfer_history_result(read_transfers_csv(fs_transfers),
                                                  top_players)
     IN  /\ f_filtered' = transfers_to_csv(result)
         /\ filtered_transfers' = result
  /\ pc' = "enrich"
  /\ UNCHANGED << fs_market_value, fs_profiles, fs_teams, fs_transfers, output_dir,
                  f_sorted, f_curated, market_value_df, top_players,
                  merge_log, exit_code >>

-----------------------------------------------------------------------------
(* Step 4: add_country_columns *)

is_youth_team(team_name) ==
  IF isna(team_name) THEN FALSE
  ELSE LET team_name_str == Strip(team_name)
       IN  \E i \in 1..Len(youth_suffixes) : EndsWith(team_name_str, youth_suffixes[i])

\* a mask that also tests the team the player leaves
youth_mask_either_end(df) ==
  [dtype |-> IF Len(df.rows) = 0 THEN "object" ELSE "bool",
   values |-> [i \in 1..Len(df.rows) |->
                 ~(is_youth_team(df.rows[i].to_team_name)
                   \/ is_youth_team(df.rows[i].from_team_name))]]

\* ~df['to_team_name'].apply(is_youth_team).  Series.apply on an empty Series
\* returns an empty Series of the column's own dtype (object for a text column);
\* on a non-empty one the booleans returned make a bool Series.
youth_mask(df) ==
  [dtype |-> IF Len(df.rows) = 0 THEN "object" ELSE "bool",
   values |-> [i \in 1..Len(df.rows) |-> ~is_youth_team(df.rows[i].to_team_name)]]

\* df[key] with a Series key: a bool Series selects rows; any other Series is
\* taken as a list of column labels, and an empty one selects no column
getitem(df, key) ==
  IF key.dtype = "bool"
  THEN LET idx == { i \in 1..Len(df.rows) : key.values[i] }
           Pos(k) == CHOOSE i \in idx : Cardinality({ j \in idx : j <= i }) = k
       IN  Frame(df.columns, [k \in 1..Cardinality(idx) |-> df.rows[Pos(k)]])
  ELSE Frame(<< >>, << >>)

HasColumn(df, column) == InList(column, df.columns)

\* dict(zip(club_id, country_name)) after drop_duplicates('club_id'): the first
\* row of each club_id is kept
team_country_map(team_rows) ==
  [c \in { team_rows[i].club_id : i \in 1..Len(team_rows) } |->
     team_rows[CHOOSE i \in 1..Len(team_rows) :
                 /\ team_rows[i].club_id = c
                 /\ \A j \in 1..(i - 1) : team_rows[j].club_id # c].country_name]

\* Series.map(team_country_map).fillna('')
CountryOf(map, club_id) ==
  IF club_id \in DOMAIN map /\ ~isna(map[club_id]) THEN map[club_id] ELSE << >>

Enriched(r, map) ==
  [player_id |-> r.player_id,
   player_name |-> r.player_name,
   from_team_id |-> r.from_team_id,
   from_team_name |-> r.from_team_name,
   to_team_id |-> r.to_team_id,
   to_team_name |-> r.to_team_name,
   from_team_country |-> CountryOf(map, r.from_team_id),
   to_team_country |-> CountryOf(map, r.to_team_id)]

\* the frame after line 293
without_youth(df) == getitem(df, youth_mask(df))

add_country_columns_result(df, teams_df) ==
  LET kept == without_youth(df)
      map == team_country_map(teams_df.rows)
  IN  Frame(kept.columns \o << "from_team_country", "to_team_country" >>,
            [i \in 1..Len(kept.rows) |-> Enriched(kept.rows[i], map)])

add_country_columns ==
  /\ pc = "enrich"
  /\ HasColumn(without_youth(filtered_transfers), "from_team_id")
  /\ f_filtered' = enriched_to_csv(
         add_country_columns_result(filtered_transfers, read_teams_csv(fs_teams)))
  /\ pc' = "merge"
  /\ UNCHANGED << fs_market_value, fs_profiles, fs_teams, fs_transfers, output_dir,
                  f_sorted, f_curated, market_value_df, top_players,
                  filtered_transfers, merge_log, exit_code >>

\* line 311 on a frame that has lost its columns: KeyError 'from_team_id', the
\* exception leaves main() and the interpreter exits with status 1
add_country_columns_KeyError ==
  /\ pc = "enrich"
  /\ ~HasColumn(without_youth(filtered_transfers), "from_team_id")
  /\ pc' = "crashed"
  /\ exit_code' = 1
  /\ UNCHANGED << fs_market_value, fs_profiles, fs_teams, fs_transfers, output_dir,
                  f_sorted, f_curated, f_filtered, market_value_df, top_players,
                  filtered_transfers, merge_log >>

-----------------------------------------------------------------------------
(* Step 5: find_and_merge_prestigious_players *)

ExcludedBy(team_lower, exclusions) ==
  \E i \in 1..Len(exclusions) : Contains(team_lower, exclusions[i])

\* a matcher in which the exclusion lists decide: a name holding a club key
\* matches unless it holds one of the club's exclusions
matches_prestigious_team_by_substring(team_name) ==
  IF team_name = << >> THEN FALSE
  ELSE LET team_lower == Lower(normalize_team_name(team_name))
       IN  \/ Contains(team_lower, key_arsenal) /\ ~ExcludedBy(team_lower, excl_arsenal)
           \/ /\ Contains(team_lower, key_barcelona)
              /\ ~ExcludedBy(team_lower, excl_barcelona)
           \/ Contains(team_lower, key_ac_milan) /\ ~ExcludedBy(team_lower, excl_ac_milan)
           \/ /\ Contains(team_lower, key_real_madrid)
              /\ ~ExcludedBy(team_lower, excl_real_madrid)
           \/ Contains(team_lower, key_chelsea) /\ ~ExcludedBy(team_lower, excl_chelsea)

\* lines 380-414
matches_prestigious_team(team_name) ==
  IF team_name = << >> THEN FALSE
  ELSE LET team_lower == Lower(normalize_team_name(team_name))
           prestigious_lower ==
             [i \in 1..Len(get_prestigious_teams) |-> Lower(get_prestigious_teams[i])]
       IN  \/ InList(team_lower, prestigious_lower)
           \/ team_lower = key_arsenal /\ ~ExcludedBy(team_lower, excl_arsenal)
           \/ team_lower = key_barcelona /\ ~ExcludedBy(team_lower, excl_barcelona)
           \/ team_lower = key_ac_milan /\ ~ExcludedBy(team_lower, excl_ac_milan)
           \/ team_lower = key_real_madrid /\ ~ExcludedBy(team_lower, excl_real_madrid)
           \/ /\ team_lower \in { key_chelsea, key_chelsea_fc }
              /\ ~ExcludedBy(team_lower, excl_chelsea)

\* a band that leaves out its lower boundary
in_prestige_band_above_low(max_market_value) ==
  /\ max_market_value > BandLow
  /\ max_market_value < BandHigh

\* the filter of lines 355-358, on one maximum
in_prestige_band(max_market_value) ==
  /\ max_market_value >= BandLow
  /\ max_market_value < BandHigh

\* column played_for_prestigious of one transfer row
played_for_prestigious(r) ==
  \/ matches_prestigious_team(normalize_team_name(r.from_team_name))
  \/ matches_prestigious_team(normalize_team_name(r.to_team_name))

\* players_with_prestigious, lines 371-423
players_with_prestigious(max_values, transfer_rows) ==
  LET prestigious_player_ids ==
        { p \in DOMAIN max_values : in_prestige_band(max_values[p]) }
      player_transfers ==
        SelectSeq(transfer_rows, LAMBDA r : r.player_id \in prestigious_player_ids)
  IN  Ids(SelectSeq(player_transfers, played_for_prestigious))

\* every prestigious row is added, present or not
new_players_unchecked(prestigious_rows, existing_player_ids) == prestigious_rows

\* the rows already present are the ones added
new_players_inverted(prestigious_rows, existing_player_ids) ==
  SelectSeq(prestigious_rows, LAMBDA r : r.player_id \in existing_player_ids)

\* players_to_add, lines 461-463
new_players(prestigious_rows, existing_player_ids) ==
  SelectSeq(prestigious_rows, LAMBDA r : r.player_id \notin existing_player_ids)

\* pd.concat of two frames: the columns of the first, then the new ones
concat_columns(a, b) == a \o SelectSeq(b, LAMBDA c : ~InList(c, a))

\* the locals of one run, up to main_players before its final sort
merge_locals(value_df, profiles_df, transfers_df, main_players_file) ==
  LET max_values == groupby_max(value_df.rows)
      qualified == players_with_prestigious(max_values, transfers_df.rows)
      restricted == [p \in qualified |-> max_values[p]]
      prestigious_players ==
        Frame(profiles_df.columns \o << "market_value" >>,
              merge_profiles(profiles_df.rows, restricted))
      loaded == read_curated_csv(main_players_file)
      players_to_add ==
        IF main_players_file.exists
        THEN new_players(prestigious_players.rows, Ids(loaded.rows))
        ELSE << >>
      main_players ==
        IF ~main_players_file.exists THEN prestigious_players
        ELSE IF Len(players_to_add) > 0
             THEN Frame(concat_columns(loaded.columns, prestigious_players.columns),
                        loaded.rows \o players_to_add)
             ELSE loaded
  IN  [existed |-> main_players_file.exists,
       before |-> main_players_file.rows,
       loaded |-> loaded.rows,
       max_values |-> max_values,
       qualified |-> qualified,
       prestigious_players |-> prestigious_players.rows,
       players_to_add |-> players_to_add,
       main_players |-> main_players]

\* the record kept of one run
LogOf(locals) ==
  [runs |-> merge_log.runs + 1,
   existed |-> locals.existed,
   before |-> locals.before,
   loaded |-> locals.loaded,
   max_values |-> locals.max_values,
   qualified |-> locals.qualified,
   prestigious_players |-> locals.prestigious_players,
   players_to_add |-> locals.players_to_add]

\* the combined table written as it is, new players at the tail
MergeInto_unsorted(locals) ==
  /\ f_curated' = curated_to_csv(locals.main_players)
  /\ merge_log' = LogOf(locals)

\* the run itself: the locals, the final sort (line 474) and the write (line 477)
MergeInto(locals) ==
  /\ \E s \in sort_values_descending(locals.main_players.rows, "market_value") :
       f_curated' = curated_to_csv(Frame(locals.main_players.columns, s))
  /\ merge_log' = LogOf(locals)

\* a merger that computes the transfer file again for the players it wrote
find_and_merge_then_refilter ==
  /\ pc = "merge"
  /\ MergeInto(merge_locals(read_value_csv(fs_market_value),
                            read_profiles_csv(fs_profiles),
                            read_transfers_csv(fs_transfers), f_curated))
  /\ f_filtered' =
       enriched_to_csv(
         add_country_columns_result(
           filter_transfer_history_result(read_transfers_csv(fs_transfers),
                                          read_curated_csv(f_curated')),
           read_teams_csv(fs_teams)))
  /\ pc' = "done"
  /\ exit_code' = 0
  /\ UNCHANGED << fs_market_value, fs_profiles, fs_teams, fs_transfers, output_dir,
                  f_sorted, market_value_df, top_players, filtered_transfers >>

\* step 5 of main(), or the first direct call
find_and_merge_prestigious_players ==
  /\ pc = "merge"
  /\ MergeInto(merge_locals(read_value_csv(fs_market_value),
                            read_profiles_csv(fs_profiles),
                            read_transfers_csv(fs_transfers), f_curated))
  /\ pc' = "done"
  /\ exit_code' = 0
  /\ UNCHANGED << fs_market_value, fs_profiles, fs_teams, fs_transfers, output_dir,
                  f_sorted, f_filtered, market_value_df, top_players,
                  filtered_transfers >>

\* the merger run again on the same inputs and on the file it wrote
merge_again ==
  /\ pc = "done"
  /\ merge_log.runs < MaxMergerRuns
  /\ MergeInto(merge_locals(read_value_csv(fs_market_value),
                            read_profiles_csv(fs_profiles),
                            read_transfers_csv(fs_transfers), f_curated))
  /\ UNCHANGED << fs_market_value, fs_profiles, fs_teams, fs_transfers, output_dir,
                  f_sorted, f_filtered, market_value_df, top_players,
                  filtered_transfers, pc, exit_code >>

-----------------------------------------------------------------------------

Next ==
  \/ ValidateFail
  \/ ValidateOk
  \/ ensure_output_directory
  \/ sort_market_values
  \/ extract_top_players
  \/ remove_temp_file
  \/ filter_transfer_history
  \/ add_country_columns
  \/ add_country_columns_KeyError
  \/ find_and_merge_prestigious_players
  \/ merge_again

Spec == Init /\ [][Next]_vars

-----------------------------------------------------------------------------
(* Properties *)

\* the Selector has returned
SelectorDone == pc \in { "remove_temp", "filter", "enrich", "crashed" } \/
                (pc \in { "merge", "done" } /\ top_players.columns # << >>)

\* rows of the sorted value table that the Selector reads
SelectorHead ==
  { i \in 1..Len(market_value_df.rows) : i <= HeadCap }

HeadIds == { market_value_df.rows[i].player_id : i \in SelectorHead }

HeadMax(p) ==
  MaxOf({ market_value_df.rows[i].value :
            i \in { j \in SelectorHead : market_value_df.rows[j].player_id = p } })

Retained(value, club, birth) ==
  /\ \/ value > HighValue
     \/ club = Txt_Retired
     \/ is_european_country(birth)
  /\ value >= ValueFloor

\* C1: every row of the Selector's output satisfies (market_value > 20,000,000
\* or club "Retired" or European birthplace) and market_value >= 19,000,000;
\* and a profiled player of the head is in the output, with the head maximum,
\* exactly when that predicate holds of it: never below 19,000,000, and kept at
\* exactly 19,000,000 when the disjunction holds.
C1_SelectorRetention ==
  /\ \A i \in 1..Len(top_players.rows) :
       LET r == top_players.rows[i]
       IN  Retained(r.market_value, r.current_club_name, r.place_of_birth)
  /\ SelectorDone =>
       \A j \in 1..Len(fs_profiles.rows) :
         LET q == ReadProfileRow(fs_profiles.rows[j])
         IN  q.player_id \in HeadIds =>
               ( (\E i \in 1..Len(top_players.rows) :
                    /\ top_players.rows[i].player_id = q.player_id
                    /\ top_players.rows[i].market_value = HeadMax(q.player_id))
                 <=> Retained(HeadMax(q.player_id), q.current_club_name,
                              q.place_of_birth) )

\* a Retired player below the floor is left out while a European player at
\* exactly 19,000,000 is kept
C1_Witness ==
  /\ pc = "remove_temp"
  /\ \E i \in 1..Len(top_players.rows) :
       /\ top_players.rows[i].market_value = ValueFloor
       /\ is_european_country(top_players.rows[i].place_of_birth)
  /\ \E j \in 1..Len(fs_profiles.rows) :
       /\ fs_profiles.rows[j].current_club_name = Txt_Retired
       /\ fs_profiles.rows[j].player_id \in HeadIds
       /\ HeadMax(fs_profiles.rows[j].player_id) < ValueFloor
       /\ fs_profiles.rows[j].player_id \notin Ids(top_players.rows)

\* the Transfer Filter has returned
FilterDone == pc \in { "enrich", "crashed" } \/
              (pc \in { "merge", "done" } /\ filtered_transfers.columns # << >>)

\* the same transfer, whatever the spelling of the player's name
SameTransfer(a, b) ==
  /\ a.player_id = b.player_id
  /\ a.from_team_id = b.from_team_id
  /\ a.from_team_name = b.from_team_name
  /\ a.to_team_id = b.to_team_id
  /\ a.to_team_name = b.to_team_name

Occurrences(rows, r) == Cardinality({ i \in 1..Len(rows) : SameTransfer(rows[i], r) })

RawTransfers ==
  [i \in 1..Len(fs_transfers.rows) |-> ReadTransferRow(fs_transfers.rows[i])]

\* C2: the player_ids of the Transfer Filter's output are exactly the curated
\* ids that occur in the raw transfer table, and every raw row of such a player
\* is in the output as often as in the input, with nothing else.
C2_TransferFilter ==
  FilterDone =>
    /\ Ids(filtered_transfers.rows) = Ids(top_players.rows) \cap Ids(RawTransfers)
    /\ \A i \in 1..Len(RawTransfers) :
         RawTransfers[i].player_id \in Ids(top_players.rows) =>
           Occurrences(filtered_transfers.rows, RawTransfers[i])
             = Occurrences(RawTransfers, RawTransfers[i])
    /\ Len(filtered_transfers.rows) =
         Cardinality({ i \in 1..Len(RawTransfers) :
                         RawTransfers[i].player_id \in Ids(top_players.rows) })

\* one player's transfers are kept and another player's are left out
C2_Witness ==
  /\ pc = "enrich"
  /\ filtered_transfers.rows # << >>
  /\ \E i \in 1..Len(RawTransfers) :
       RawTransfers[i].player_id \notin Ids(filtered_transfers.rows)

\* the Country Enricher has written its file
EnricherDone == pc \in { "merge", "done" } /\ f_filtered.exists

\* the trimmed name ends with one of the youth suffixes
YouthName(name) ==
  \E i \in 1..Len(youth_suffixes) : EndsWith(Strip(name), youth_suffixes[i])

\* C3: no row of the Country Enricher's output has a to_team_name whose trimmed
\* string ends with a youth suffix, and the rows it removes are exactly the rows
\* with such a to_team_name: from_team_name plays no part.
C3_YouthDestinationOnly ==
  EnricherDone =>
    /\ \A i \in 1..Len(f_filtered.rows) : ~YouthName(f_filtered.rows[i].to_team_name)
    /\ \A i \in 1..Len(filtered_transfers.rows) :
         ~YouthName(filtered_transfers.rows[i].to_team_name) =>
           Occurrences(f_filtered.rows, WriteTransferRow(filtered_transfers.rows[i]))
             = Occurrences(filtered_transfers.rows, filtered_transfers.rows[i])
    /\ Len(f_filtered.rows) =
         Cardinality({ i \in 1..Len(filtered_transfers.rows) :
                         ~YouthName(filtered_transfers.rows[i].to_team_name) })

\* a transfer to "Real Madrid B" is dropped and a transfer from "Real Madrid B"
\* to "Real Madrid" is kept
C3_Witness ==
  /\ pc = "merge"
  /\ \E i \in 1..Len(filtered_transfers.rows) :
       /\ Strip(filtered_transfers.rows[i].to_team_name)
            = << "R", "e", "a", "l", " ", "M", "a", "d", "r", "i", "d", " ", "B" >>
       /\ Occurrences(f_filtered.rows, filtered_transfers.rows[i]) = 0
  /\ \E i \in 1..Len(f_filtered.rows) :
       /\ f_filtered.rows[i].to_team_name = Txt_RealMadrid
       /\ YouthName(f_filtered.rows[i].from_team_name)

Count(rows, r) == Cardinality({ i \in 1..Len(rows) : rows[i] = r })
CountId(rows, p) == Cardinality({ i \in 1..Len(rows) : rows[i].player_id = p })

\* the same rows, in any order
SameRows(a, b) ==
  /\ Len(a) = Len(b)
  /\ \A i \in 1..Len(a) : Count(a, a[i]) = Count(b, a[i])

\* C4: a second run of the merger on the same inputs and on the file the first
\* run wrote adds no row and leaves the file with the same rows.
C4_MergerIdempotent ==
  merge_log.runs >= 2 =>
    /\ SameRows(f_curated.rows, merge_log.before)
    /\ \A p \in Ids(f_curated.rows) :
         CountId(f_curated.rows, p) = CountId(merge_log.before, p)

\* the second run meets a player the first run has put into the file
C4_Witness ==
  /\ merge_log.runs = 2
  /\ \E i \in 1..Len(merge_log.prestigious_players) :
       merge_log.prestigious_players[i].player_id \in Ids(merge_log.before)

\* the player's maximum over the whole raw value table
FullMax(p) ==
  MaxOf({ fs_market_value.rows[i].value :
            i \in { j \in 1..Len(fs_market_value.rows) :
                      fs_market_value.rows[j].player_id = p } })

\* the rows present before the run are all in the file after it, unchanged
ExistingRowsKept ==
  \A i \in 1..Len(merge_log.before) :
    Count(f_curated.rows, merge_log.before[i])
      >= Count(merge_log.before, merge_log.before[i])

\* the run has put rows of player p into the file
Appended(p) == CountId(f_curated.rows, p) > CountId(merge_log.before, p)

\* C5 as stated: with an existing curated table, the rows present stay as they
\* are and a prestige-qualified player is appended iff its player_id is not in
\* the existing table.
C5_AppendedIffAbsent ==
  (merge_log.runs >= 1 /\ merge_log.existed) =>
    /\ ExistingRowsKept
    /\ \A p \in merge_log.qualified : Appended(p) <=> p \notin Ids(merge_log.before)

\* C5 amended: with an existing curated table, the rows present stay as they
\* are (market_value included), and a prestige-qualified player that has a row
\* in the profile table is appended iff its player_id is not in the existing
\* table; nothing else is appended.
C5_AppendedIffAbsentAndProfiled ==
  (merge_log.runs >= 1 /\ merge_log.existed) =>
    /\ ExistingRowsKept
    /\ \A p \in merge_log.qualified \cap Ids(fs_profiles.rows) :
         Appended(p) <=> p \notin Ids(merge_log.before)
    /\ \A p \in Ids(f_curated.rows) :
         Appended(p) => p \in merge_log.qualified \cap Ids(fs_profiles.rows)

\* a qualified player already present keeps a market_value that is not the
\* recomputed maximum, and another qualified player is appended
C5_Witness ==
  /\ merge_log.runs = 1
  /\ merge_log.existed
  /\ \E i \in 1..Len(f_curated.rows) :
       /\ f_curated.rows[i].player_id \in merge_log.qualified
       /\ f_curated.rows[i].player_id \in Ids(merge_log.before)
       /\ f_curated.rows[i].market_value # FullMax(f_curated.rows[i].player_id)
  /\ \E p \in merge_log.qualified : Appended(p)

\* the name is one the matcher accepts
PrestigiousName(name) == matches_prestigious_team(normalize_team_name(name))

\* C6: the merger qualifies a player iff its maximum over the whole raw value
\* table is >= 10,000,000 and < 19,000,000 and one of its transfer rows has a
\* prestigious from-team or to-team; the market_value attached to a qualified
\* player is that maximum.
C6_PrestigeQualification ==
  merge_log.runs >= 1 =>
    /\ merge_log.qualified =
         { p \in Ids(fs_market_value.rows) :
             /\ FullMax(p) >= 10000000
             /\ FullMax(p) < 19000000
             /\ \E i \in 1..Len(RawTransfers) :
                  /\ RawTransfers[i].player_id = p
                  /\ \/ PrestigiousName(RawTransfers[i].from_team_name)
                     \/ PrestigiousName(RawTransfers[i].to_team_name) }
    /\ \A i \in 1..Len(merge_log.prestigious_players) :
         LET r == merge_log.prestigious_players[i]
         IN  /\ r.player_id \in merge_log.qualified
             /\ r.market_value = FullMax(r.player_id)

\* a player at exactly 10,000,000 that the Selector's head does not hold is
\* qualified, and a player at exactly 19,000,000 with a prestigious transfer is not
C6_Witness ==
  /\ pc = "done"
  /\ market_value_df.rows # << >>
  /\ \E p \in merge_log.qualified : FullMax(p) = 10000000 /\ p \notin HeadIds
  /\ \E i \in 1..Len(RawTransfers) :
       /\ RawTransfers[i].player_id \in Ids(fs_market_value.rows)
       /\ FullMax(RawTransfers[i].player_id) = 19000000
       /\ PrestigiousName(RawTransfers[i].from_team_name)
       /\ RawTransfers[i].player_id \notin merge_log.qualified

\* C7: with an input file missing the run ends with exit code 1 and nothing
\* else changes (the output directory is not created, no file is written, no
\* stage runs); a stage runs only when all four inputs exist.
C7_MissingInputStopsRun ==
  /\ [][ (pc = "validate" /\ ~InputsExist) =>
           /\ pc' = "exit"
           /\ exit_code' = 1
           /\ UNCHANGED << fs_market_value, fs_profiles, fs_teams, fs_transfers,
                           output_dir, f_sorted, f_curated, f_filtered,
                           market_value_df, top_players, filtered_transfers,
                           merge_log >> ]_vars
  /\ [][ pc = "exit" => UNCHANGED vars ]_vars
  /\ [](pc \notin { "validate", "exit" } => InputsExist)

\* the run has ended with status 1 on a missing transfer file, the other
\* inputs present, and there is no output directory
C7_Witness ==
  /\ pc = "exit"
  /\ exit_code = 1
  /\ ~output_dir
  /\ fs_market_value.exists /\ fs_profiles.exists /\ fs_teams.exists
  /\ ~fs_transfers.exists
  /\ ~f_sorted.exists /\ ~f_curated.exists /\ ~f_filtered.exists

\* the Value Sorter has returned
SorterDone == market_value_df.columns # << >>

\* C8: the Value Sorter's output has the rows of the input value table, each
\* as often as the input and unchanged, with value non-increasing from each
\* row to the next.
C8_SortedPermutation ==
  SorterDone =>
    /\ SameRows(market_value_df.rows, fs_market_value.rows)
    /\ market_value_df.columns = fs_market_value.columns
    /\ \A i \in 1..(Len(market_value_df.rows) - 1) :
         market_value_df.rows[i].value >= market_value_df.rows[i + 1].value
    /\ f_sorted.exists => f_sorted.rows = market_value_df.rows

\* three rows, two of them with the same value, have been reordered
C8_Witness ==
  /\ pc = "extract"
  /\ Len(market_value_df.rows) = 3
  /\ market_value_df.rows # fs_market_value.rows
  /\ market_value_df.rows[1].value = market_value_df.rows[2].value
  /\ market_value_df.rows[2].value > market_value_df.rows[3].value

\* C9: after the merger the curated file is sorted by market_value descending
\* over all its rows, appended or not, with or without a prior file.
C9_CuratedSorted ==
  pc = "done" =>
    \A i \in 1..(Len(f_curated.rows) - 1) :
      f_curated.rows[i].market_value >= f_curated.rows[i + 1].market_value

\* an appended player stands before a row that was already in the file
C9_Witness ==
  /\ pc = "done"
  /\ merge_log.existed
  /\ \E i, j \in 1..Len(f_curated.rows) :
       /\ i < j
       /\ f_curated.rows[i].player_id \notin Ids(merge_log.before)
       /\ f_curated.rows[j].player_id \in Ids(merge_log.before)
       /\ f_curated.rows[i].market_value > f_curated.rows[j].market_value

\* C10 as stated: an empty result at any stage is not an error; the run does
\* not fail, and when it ends both output files exist with their full header.
C10_EmptyResultIsNoError ==
  /\ pc # "crashed"
  /\ (pc = "done" /\ FilterDone) =>
       /\ exit_code = 0
       /\ f_curated.exists /\ f_curated.columns = CuratedColumns
       /\ f_filtered.exists /\ f_filtered.columns = EnrichedColumns

\* the exclusion lists of lines 397-410, by club
exclusion_lists ==
  [arsenal |-> excl_arsenal, barcelona |-> excl_barcelona, ac_milan |-> excl_ac_milan,
   real_madrid |-> excl_real_madrid, chelsea |-> excl_chelsea]

\* the same lists with the bare "b" taken out
ListsWithoutB ==
  [k \in DOMAIN exclusion_lists |->
     SelectSeq(exclusion_lists[k], LAMBDA x : x # << "b" >>)]

\* lines 380-414 with the exclusion lists as a parameter
matches_with_lists(team_name, lists) ==
  IF team_name = << >> THEN FALSE
  ELSE LET team_lower == Lower(normalize_team_name(team_name))
           prestigious_lower ==
             [i \in 1..Len(get_prestigious_teams) |-> Lower(get_prestigious_teams[i])]
       IN  \/ InList(team_lower, prestigious_lower)
           \/ team_lower = key_arsenal /\ ~ExcludedBy(team_lower, lists.arsenal)
           \/ team_lower = key_barcelona /\ ~ExcludedBy(team_lower, lists.barcelona)
           \/ team_lower = key_ac_milan /\ ~ExcludedBy(team_lower, lists.ac_milan)
           \/ team_lower = key_real_madrid /\ ~ExcludedBy(team_lower, lists.real_madrid)
           \/ /\ team_lower \in { key_chelsea, key_chelsea_fc }
              /\ ~ExcludedBy(team_lower, lists.chelsea)

\* the team names of the matcher's clubs, as read from the transfer file
ClubNames == { ReadText(c.name) : c \in MatcherClubs }

\* what the matcher answers
Accepted == [name \in ClubNames |-> PrestigiousName(name)]

\* what the matcher would answer with "b" out of the exclusion lists
AcceptedWithoutB ==
  [name \in ClubNames |->
     matches_with_lists(normalize_team_name(name), ListsWithoutB)]

\* what lines 380-414 answer with the lists they have
AcceptedWithLists ==
  [name \in ClubNames |->
     matches_with_lists(normalize_team_name(name), exclusion_lists)]

\* trimmed and lowercased, the name is one of the seven listed names
ExactName ==
  [name \in ClubNames |->
     /\ ~isna(name)
     /\ \E i \in 1..Len(get_prestigious_teams) :
          Lower(Strip(name)) = Lower(get_prestigious_teams[i])]

\* the team names of the transfer table the merger reads
MatcherNames ==
  { RawTransfers[i].from_team_name : i \in 1..Len(RawTransfers) } \cup
  { RawTransfers[i].to_team_name : i \in 1..Len(RawTransfers) }

\* C11 as stated: the exclusion lists take effect, and among the team names
\* there is one the matcher rejects and would accept with "b" out of the lists.
C11_ExclusionsTakeEffect ==
  merge_log.runs >= 1 =>
    \E name \in ClubNames : ~Accepted[name] /\ AcceptedWithoutB[name]

\* C11, amended: the exclusion lists never decide. The matcher accepts a team
\* name exactly when its trimmed, lowercased form is one of the seven listed
\* names, a name holding an exclusion substring included, and taking "b" out
\* of the lists changes the answer for no name; the qualified players are the
\* players of the band with such a name on a transfer row.
C11_ExclusionsNeverDecide ==
  merge_log.runs >= 1 =>
    /\ \A name \in MatcherNames :
         /\ name \in ClubNames
         /\ Accepted[name] = ExactName[name]
         /\ Accepted[name] = AcceptedWithoutB[name]
         /\ Accepted[name] = AcceptedWithLists[name]
    /\ merge_log.qualified =
         { p \in Ids(fs_market_value.rows) :
             /\ FullMax(p) >= BandLow
             /\ FullMax(p) < BandHigh
             /\ \E i \in 1..Len(RawTransfers) :
                  /\ RawTransfers[i].player_id = p
                  /\ \/ ExactName[RawTransfers[i].from_team_name]
                     \/ ExactName[RawTransfers[i].to_team_name] }

\* the merger has qualified a player on a team name that holds " b", an
\* exclusion substring of its club, and "b"
C11_Witness ==
  /\ merge_log.runs >= 1
  /\ \E i \in 1..Len(RawTransfers) :
       LET team_lower == Lower(normalize_team_name(RawTransfers[i].from_team_name))
       IN  /\ Contains(team_lower, key_barcelona)
           /\ ExcludedBy(team_lower, excl_barcelona)
           /\ Contains(team_lower, << "b" >>)
           /\ RawTransfers[i].player_id \in merge_log.qualified
           /\ ~PrestigiousName(RawTransfers[i].to_team_name)

\* a run of main() has reached its end
EndToEndDone == pc = "done" /\ top_players.columns # << >>

\* C12: in a run of main(), for every player_id of the capped head of the
\* sorted value table the maximum the Selector computes over the head equals the
\* maximum the Merger computes over the whole raw table; so no player the Merger
\* qualifies is in the Selector's output, and on the first merge nothing the
\* Merger found is held back as already present: the two id sets are disjoint.
C12_HeadMaxIsFullMax ==
  EndToEndDone =>
    /\ \A p \in DOMAIN top_max_values(market_value_df) :
         /\ p \in DOMAIN merge_log.max_values
         /\ top_max_values(market_value_df)[p] = merge_log.max_values[p]
         /\ merge_log.max_values[p] = FullMax(p)
    /\ merge_log.qualified \cap Ids(top_players.rows) = { }
    /\ merge_log.runs = 1 =>
         /\ Ids(merge_log.before) = Ids(top_players.rows)
         /\ merge_log.players_to_add = merge_log.prestigious_players
         /\ Ids(merge_log.players_to_add) \cap Ids(merge_log.before) = { }

\* a run of main() in which the head cuts off a row of a player it holds, the
\* Selector has kept a player and the Merger has appended that other player
C12_Witness ==
  /\ EndToEndDone
  /\ merge_log.runs = 1
  /\ top_players.rows # << >>
  /\ merge_log.players_to_add # << >>
  /\ \E i \in 1..Len(market_value_df.rows) :
       /\ i > HeadCap
       /\ market_value_df.rows[i].player_id \in HeadIds
       /\ market_value_df.rows[i].player_id \in Ids(merge_log.players_to_add)

\* C13: at the end of a successful run of main() every player_id of the final
\* filtered transfer file is a player_id of the Selector's output, and so of the
\* final curated file; a player the Merger appended is in the curated file and
\* has rows in the raw transfer table but none in the final transfer file.
C13_TransfersOfSelectorOnly ==
  (EndToEndDone /\ exit_code = 0) =>
    /\ Ids(f_filtered.rows) \subseteq Ids(top_players.rows)
    /\ Ids(top_players.rows) \subseteq Ids(f_curated.rows)
    /\ \A p \in Ids(f_curated.rows) \ Ids(top_players.rows) :
         /\ p \in merge_log.qualified
         /\ p \in Ids(RawTransfers)
         /\ p \notin Ids(f_filtered.rows)
    /\ Ids(merge_log.players_to_add) \cap Ids(f_filtered.rows) = { }

\* a successful run of main() with a transfer file that is not empty and a
\* player appended by the Merger whose raw transfer to a senior team is not in it
C13_Witness ==
  /\ EndToEndDone
  /\ exit_code = 0
  /\ f_filtered.rows # << >>
  /\ \E p \in Ids(f_curated.rows) \ Ids(top_players.rows) :
       /\ p \notin Ids(f_filtered.rows)
       /\ \E i \in 1..Len(RawTransfers) :
            /\ RawTransfers[i].player_id = p
            /\ ~is_youth_team(RawTransfers[i].to_team_name)

====
